---- MODULE Spec2Model ----
(***************************************************************************)
(* Model of the tunnel proxy worker (src/src/index.ts) and of the UI API   *)
(* client that calls it (src/ui/src/api/client.ts).                        *)
(*                                                                         *)
(* A JavaScript string that the code splits or trims is a sequence of      *)
(* tokens: one-character strings for the separators and blanks, and        *)
(* longer atoms for text without separators.  A URL pathname is the        *)
(* sequence of its segments: "/a/b" is <<"a","b">>, "/a/" is <<"a","">>,   *)
(* "/" is <<"">>.                                                          *)
(***************************************************************************)
EXTENDS Integers, Sequences, FiniteSets, TLC

\* env: the bindings of the deployment; tasks: the invocations of the
\* handler; registry: the list of live tunnels the registry authority holds.
\* SpecConc follows the registry through its updates; in the other
\* specifications a lookup may come back with any list and the variable
\* stays as it starts.
VARIABLES env, tasks, registry

\* The browser side.  rpc: the RPC client object (GrpcWebRpc); executor: the
\* state of the MethodExecutor component with its clientId prop and its
\* calls in flight; tunnelList: the state of the TunnelList component.  The
\* specifications of the worker leave the three as they start.
VARIABLES rpc, executor, tunnelList

ui == <<rpc, executor, tunnelList>>

vars == <<env, tasks, registry, rpc, executor, tunnelList>>

(***************************************************************************)
(* Strings                                                                 *)
(***************************************************************************)

\* The text of a token sequence.
RECURSIVE Str(_)
Str(cs) == IF cs = <<>> THEN "" ELSE cs[1] \o Str(Tail(cs))

IsWhiteSpace(c) == c = " "

RECURSIVE TrimStart(_)
TrimStart(cs) ==
    IF cs # <<>> /\ IsWhiteSpace(cs[1]) THEN TrimStart(Tail(cs)) ELSE cs

RECURSIVE TrimEnd(_)
TrimEnd(cs) ==
    IF cs # <<>> /\ IsWhiteSpace(cs[Len(cs)])
    THEN TrimEnd(SubSeq(cs, 1, Len(cs) - 1))
    ELSE cs

\* String.prototype.trim
trim(cs) == TrimEnd(TrimStart(cs))

\* String.prototype.split(sep): the pieces between the separators, in order;
\* a string without separator (the empty string too) is its only piece.
RECURSIVE split(_, _)
split(cs, sep) ==
    IF \E i \in 1..Len(cs) : cs[i] = sep
    THEN LET i == CHOOSE k \in 1..Len(cs) :
                      /\ cs[k] = sep
                      /\ \A j \in 1..(k - 1) : cs[j] # sep
         IN  <<SubSeq(cs, 1, i - 1)>> \o split(SubSeq(cs, i + 1, Len(cs)), sep)
    ELSE <<cs>>

\* Array.prototype.includes
includes(arr, x) == \E i \in 1..Len(arr) : arr[i] = x

(***************************************************************************)
(* Configuration (Env)                                                     *)
(***************************************************************************)

\* An optional string binding of the environment.
Undefined == [defined |-> FALSE, value |-> <<>>]

Defined(cs) == [defined |-> TRUE, value |-> cs]

\* JavaScript truthiness of an optional string: defined and not empty.
Truthy(v) == v.defined /\ v.value # <<>>

(***************************************************************************)
(* URLs                                                                    *)
(***************************************************************************)

UpUrl == "https://up.example/base?k=1"

OtherUrl == "https://other.example/"

LocalUrl == "http://localhost:8080/dev"

\* new URL(text) for the URL texts of the model; any other text does not
\* parse and makes the constructor throw.
ValidUrls == {UpUrl, OtherUrl, LocalUrl}

ParseURL(text) ==
    CASE text = UpUrl ->
            [scheme |-> "https", host |-> "up.example",
             pathname |-> <<"base">>, search |-> "?k=1"]
      [] text = OtherUrl ->
            [scheme |-> "https", host |-> "other.example",
             pathname |-> <<"">>, search |-> ""]
      [] text = LocalUrl ->
            [scheme |-> "http", host |-> "localhost:8080",
             pathname |-> <<"dev">>, search |-> ""]

\* The pathname setter of a URL with a special scheme: the path is replaced
\* by the given one; an empty value leaves the root path "/".
SetPathname(u, p) ==
    [u EXCEPT !.pathname = IF p = <<>> THEN <<"">> ELSE p]

\* The search setter: the query is replaced by the given one.
SetSearch(u, s) == [u EXCEPT !.search = s]

\* The registry authority's address.
authUrl ==
    [scheme |-> "https", host |-> "ohishi-auth.mtamaramu.com",
     pathname |-> <<"tunnels">>, search |-> ""]

(***************************************************************************)
(* Headers and bodies                                                      *)
(***************************************************************************)

\* {...a, ...b}: the entries of b override those of a.
Spread(a, b) == b @@ a

NoHeaders == [h \in {} |-> ""]

corsHeaders ==
    ("Access-Control-Allow-Origin" :> "*") @@
    ("Access-Control-Allow-Methods" :> "GET, POST, PUT, DELETE, OPTIONS") @@
    ("Access-Control-Allow-Headers" :>
        "Content-Type, x-grpc-web, x-user-agent, Authorization") @@
    ("Access-Control-Expose-Headers" :> "grpc-status, grpc-message")

JsonType == "Content-Type" :> "application/json"

NullBody == [kind |-> "null"]

\* JSON.stringify({error, ...}) with the headers every error response gets.
ErrorResponse(status, error) ==
    [status |-> status, statusText |-> "",
     headers |-> Spread(JsonType, corsHeaders),
     body |-> [kind |-> "json", error |-> error]]

(***************************************************************************)
(* Responses                                                               *)
(***************************************************************************)

\* Statuses whose response cannot have a body.
NullBodyStatus(status) == status \in {101, 204, 205, 304}

\* Response.ok
Ok(status) == status >= 200 /\ status <= 299

\* Response.text(): the body as text, the empty text when there is none.
Text(body) == IF body.kind = "null" THEN [kind |-> "text", text |-> ""] ELSE body

\* new Response(body, init) throws a TypeError when a body is given with a
\* null-body status.
ResponseThrows(body, status) == NullBodyStatus(status) /\ body.kind # "null"

(***************************************************************************)
(* Tasks: one per inbound request being handled                            *)
(***************************************************************************)

Tasks == {"t1"}

NoRequest ==
    [method |-> "", pathname |-> <<>>, search |-> "",
     headers |-> NoHeaders, body |-> NullBody]

\* A task that handles no request.
Idle ==
    [pc |-> "idle", request |-> NoRequest, route |-> "none", tunnelId |-> "",
     calls |-> <<>>, replies |-> <<>>, responses |-> <<>>]

\* return new Response(...)
Respond(task, resp) ==
    [task EXCEPT !.pc = "done", !.responses = Append(@, resp)]

\* await fetch(...): the call is issued and the task is suspended at pc.
Call(task, call, pc) ==
    [task EXCEPT !.pc = pc, !.calls = Append(@, call)]

\* The awaited call came back with reply.
Resume(task, reply) == [task EXCEPT !.replies = Append(@, reply)]

(***************************************************************************)
(* Access control                                                          *)
(***************************************************************************)

\* The entries taken as they are written, blanks included.
allowedIds_untrimmed(value) ==
    LET pieces == split(value, ",")
    IN  [i \in 1..Len(pieces) |-> Str(pieces[i])]

\* env.ALLOWED_CLIENT_IDS.split(',').map(id => id.trim())
allowedIds(value) ==
    LET pieces == split(value, ",")
    IN  [i \in 1..Len(pieces) |-> Str(trim(pieces[i]))]

\* The 403 branch of a tunnel route is taken.
Forbidden(e, tunnelId) ==
    /\ Truthy(e.ALLOWED_CLIENT_IDS)
    /\ ~includes(allowedIds(e.ALLOWED_CLIENT_IDS.value), tunnelId)

ForbiddenResponse == ErrorResponse(403, "Forbidden")

(***************************************************************************)
(* Request router                                                          *)
(***************************************************************************)

\* /^\/tunnel\/([^\/]+)\/api\/registry$/
registryMatch(p) ==
    Len(p) = 4 /\ p[1] = "tunnel" /\ p[2] # "" /\ p[3] = "api" /\ p[4] = "registry"

\* /^\/tunnel\/([^\/]+)\/api\/invoke$/
invokeMatch(p) ==
    Len(p) = 4 /\ p[1] = "tunnel" /\ p[2] # "" /\ p[3] = "api" /\ p[4] = "invoke"

\* /^\/tunnel\/([^\/]+)(\/.*)?$/
tunnelMatch(p) == Len(p) >= 2 /\ p[1] = "tunnel" /\ p[2] # ""

\* tunnelMatch[2] || '': the path after /tunnel/:id.
remainingPath(p) == SubSeq(p, 3, Len(p))

\* remainingPath.startsWith('/api/grpc/')
IsGrpcApiPath(rem) == Len(rem) >= 3 /\ rem[1] = "api" /\ rem[2] = "grpc"

\* The cascade with the generic pattern tried before the reserved sub-paths.
Route_genericFirst(req) ==
    IF req.method = "OPTIONS" THEN "preflight"
    ELSE IF req.pathname = <<"tunnels">> /\ req.method = "GET" THEN "list"
    ELSE IF tunnelMatch(req.pathname) THEN "generic"
    ELSE IF registryMatch(req.pathname) /\ req.method = "GET" THEN "registry"
    ELSE IF invokeMatch(req.pathname) /\ req.method = "POST" THEN "invoke"
    ELSE "default"

\* The cascade of route conditions of fetch, first match first.
Route(req) ==
    IF req.method = "OPTIONS" THEN "preflight"
    ELSE IF req.pathname = <<"tunnels">> /\ req.method = "GET" THEN "list"
    ELSE IF registryMatch(req.pathname) /\ req.method = "GET" THEN "registry"
    ELSE IF invokeMatch(req.pathname) /\ req.method = "POST" THEN "invoke"
    ELSE IF tunnelMatch(req.pathname) THEN "generic"
    ELSE "default"

\* fetch(authUrl, {method: 'GET', headers: request.headers})
RegistryCall(req) ==
    [to |-> "registry", url |-> authUrl, method |-> "GET",
     headers |-> req.headers, body |-> NullBody]

\* env.ASSETS.fetch(request)
AssetsCall(req) ==
    [to |-> "assets",
     url |-> [scheme |-> "", host |-> "", pathname |-> req.pathname,
              search |-> req.search],
     method |-> req.method, headers |-> req.headers, body |-> req.body]

\* The fallback payload of the default route.
InfoResponse ==
    [status |-> 200, statusText |-> "",
     headers |-> Spread(JsonType, corsHeaders),
     body |-> [kind |-> "json", message |-> "Tunnel URL Service"]]

PreflightResponse ==
    [status |-> 200, statusText |-> "", headers |-> corsHeaders,
     body |-> NullBody]

\* The registry lookup without the access check before it.
CheckAndLookup_unchecked(e, task) ==
    Call(task, RegistryCall(task.request), "registry")

\* The access check of a tunnel route and, when it passes, the registry
\* lookup.
CheckAndLookup(e, task) ==
    IF Forbidden(e, task.tunnelId)
    THEN Respond(task, ForbiddenResponse)
    ELSE Call(task, RegistryCall(task.request), "registry")

\* The handler without its preflight branch: an OPTIONS request is routed
\* by its path like a request of any other method.
Begin_noPreflight(e, req) ==
    LET route == IF req.method # "OPTIONS" THEN Route(req)
                 ELSE IF tunnelMatch(req.pathname) THEN "generic" ELSE "default"
        task  == [Idle EXCEPT
                    !.request = req,
                    !.route = route,
                    !.tunnelId = IF route \in {"registry", "invoke", "generic"}
                                 THEN req.pathname[2] ELSE ""]
    IN  CASE route = "list" -> Call(task, RegistryCall(req), "registry")
          [] route \in {"registry", "invoke"} -> CheckAndLookup(e, task)
          [] route = "generic" ->
                IF IsGrpcApiPath(remainingPath(req.pathname))
                THEN Respond(task, ErrorResponse(405, "Method Not Allowed"))
                ELSE CheckAndLookup(e, task)
          [] route = "default" ->
                IF e.ASSETS
                THEN Call(task, AssetsCall(req), "assets")
                ELSE Respond(task, InfoResponse)

\* The handler from its entry to its first await or return.
Begin(e, req) ==
    LET route == Route(req)
        task  == [Idle EXCEPT
                    !.request = req,
                    !.route = route,
                    !.tunnelId = IF route \in {"registry", "invoke", "generic"}
                                 THEN req.pathname[2] ELSE ""]
    IN  CASE route = "preflight" -> Respond(task, PreflightResponse)
          [] route = "list" -> Call(task, RegistryCall(req), "registry")
          [] route \in {"registry", "invoke"} -> CheckAndLookup(e, task)
          [] route = "generic" ->
                IF IsGrpcApiPath(remainingPath(req.pathname))
                THEN Respond(task, ErrorResponse(405, "Method Not Allowed"))
                ELSE CheckAndLookup(e, task)
          [] route = "default" ->
                IF e.ASSETS
                THEN Call(task, AssetsCall(req), "assets")
                ELSE Respond(task, InfoResponse)

(***************************************************************************)
(* Identity resolution and endpoint override                               *)
(***************************************************************************)

\* find with a predicate that holds of every record: the first record of the
\* snapshot, whatever its identity.
find_anyRecord(data, tunnelId) ==
    IF data # <<>> THEN <<data[1]>> ELSE <<>>

\* apiResponse.data.find(t => t.clientId === tunnelId): the first record of
\* the identity, as a sequence of length one, or the empty sequence.
find(data, tunnelId) ==
    IF \E i \in 1..Len(data) : data[i].clientId = tunnelId
    THEN LET i == CHOOSE k \in 1..Len(data) :
                      /\ data[k].clientId = tunnelId
                      /\ \A j \in 1..(k - 1) : data[j].clientId # tunnelId
         IN  <<data[i]>>
    ELSE <<>>

\* The loop over the entries of LOCAL_TUNNEL_URLS: the first entry whose
\* trimmed id is the tunnel id gives the base URL; such an entry without
\* '=' has no url, and url.trim() throws.
RECURSIVE OverrideLoop(_, _, _)
OverrideLoop(overrides, tunnelId, baseUrl) ==
    IF overrides = <<>>
    THEN [threw |-> FALSE, baseUrl |-> baseUrl]
    ELSE LET parts == split(Head(overrides), "=")
         IN  IF Str(trim(parts[1])) = tunnelId
             THEN IF Len(parts) >= 2
                  THEN [threw |-> FALSE, baseUrl |-> Str(trim(parts[2]))]
                  ELSE [threw |-> TRUE, baseUrl |-> baseUrl]
             ELSE OverrideLoop(Tail(overrides), tunnelId, baseUrl)

\* The base URL of the registry route: the record's URL unless overridden.
LocalOverride(e, tunnelId, tunnelUrl) ==
    IF Truthy(e.LOCAL_TUNNEL_URLS)
    THEN OverrideLoop(split(e.LOCAL_TUNNEL_URLS.value, ","), tunnelId, tunnelUrl)
    ELSE [threw |-> FALSE, baseUrl |-> tunnelUrl]

(***************************************************************************)
(* The three tunnel routes after the registry lookup                       *)
(***************************************************************************)

\* The error of the catch block of each route.
CatchError(route) ==
    CASE route = "list" -> "Internal server error"
      [] route = "registry" -> "Failed to connect to registry"
      [] route = "invoke" -> "Failed to connect to invoke endpoint"
      [] route = "generic" -> "Failed to connect to tunnel"

\* The response of a catch block: {error, message: error.message}.
CaughtResponse(route) ==
    [status |-> 500, statusText |-> "",
     headers |-> Spread(JsonType, corsHeaders),
     body |-> [kind |-> "json", error |-> CatchError(route),
               message |-> "error.message"]]

\* The error leaves the handler: the task ends without a response.
Caught_rethrown(task) == [task EXCEPT !.pc = "failed"]

Caught(task) == Respond(task, CaughtResponse(task.route))

\* request.headers.get(name); the empty text stands for null.
HeaderGet(headers, name) ==
    IF name \in DOMAIN headers THEN headers[name] ELSE ""

TunnelCall(url, method, headers, body) ==
    [to |-> "tunnel", url |-> url, method |-> method, headers |-> headers,
     body |-> body]

\* Registry route: GET <base>/api/registry with a fixed Accept header.
ForwardRegistry(e, task, tunnel) ==
    LET o == LocalOverride(e, task.tunnelId, tunnel.tunnelUrl)
    IN  IF o.threw \/ o.baseUrl \notin ValidUrls
        THEN Caught(task)
        ELSE Call(task,
                  TunnelCall(SetPathname(ParseURL(o.baseUrl), <<"api", "registry">>),
                             "GET", "Accept" :> "application/json", NullBody),
                  "tunnel")

\* All the headers of the caller.
forwardHeaders_all(req) == req.headers

\* The Content-Type of the caller, when it has one.
forwardHeaders(req) ==
    IF HeaderGet(req.headers, "Content-Type") # ""
    THEN "Content-Type" :> HeaderGet(req.headers, "Content-Type")
    ELSE NoHeaders

\* Invoke route: POST <tunnelUrl>/api/invoke with the caller's body.
ForwardInvoke(task, tunnel) ==
    IF tunnel.tunnelUrl \notin ValidUrls
    THEN Caught(task)
    ELSE Call(task,
              TunnelCall(SetPathname(ParseURL(tunnel.tunnelUrl), <<"api", "invoke">>),
                         "POST", forwardHeaders(task.request), task.request.body),
              "tunnel")

\* The remaining path appended to the path of the base, the query of the
\* base kept.
targetUrl_joined(tunnelUrl, req) ==
    [ParseURL(tunnelUrl) EXCEPT !.pathname = @ \o remainingPath(req.pathname)]

\* The target of the generic route: the record's URL with the remaining
\* path as path and the inbound query as query.
targetUrl(tunnelUrl, req) ==
    SetSearch(SetPathname(ParseURL(tunnelUrl), remainingPath(req.pathname)),
              req.search)

\* Generic route: the inbound request sent to the target.
ForwardGeneric(task, tunnel) ==
    IF tunnel.tunnelUrl \notin ValidUrls
    THEN Caught(task)
    ELSE Call(task,
              TunnelCall(targetUrl(tunnel.tunnelUrl, task.request),
                         task.request.method, task.request.headers,
                         task.request.body),
              "tunnel")

Forward(e, task, tunnel) ==
    CASE task.route = "registry" -> ForwardRegistry(e, task, tunnel)
      [] task.route = "invoke" -> ForwardInvoke(task, tunnel)
      [] task.route = "generic" -> ForwardGeneric(task, tunnel)

\* The list as the registry gave it, tunnelUrl included.
sanitizedData_raw(apiResponse) ==
    [kind |-> "json", success |-> apiResponse.success,
     data |-> apiResponse.data, count |-> apiResponse.count]

\* The public list: the records without their tunnelUrl.
sanitizedData(apiResponse) ==
    [kind |-> "json",
     success |-> apiResponse.success,
     data |-> [i \in 1..Len(apiResponse.data) |->
                  [clientId |-> apiResponse.data[i].clientId,
                   updatedAt |-> apiResponse.data[i].updatedAt,
                   createdAt |-> apiResponse.data[i].createdAt]],
     count |-> apiResponse.count]

\* The list with a figure that depends on the other requests: the number of
\* requests the worker is handling.
ListResponse_shared(apiResponse) ==
    [status |-> 200, statusText |-> "",
     headers |-> Spread(JsonType @@ ("Cache-Control" :> "public, max-age=60"),
                        corsHeaders),
     body |-> [sanitizedData(apiResponse) EXCEPT
                 !.count = Cardinality({t \in DOMAIN tasks : tasks[t].pc # "idle"})]]

ListResponse(apiResponse) ==
    [status |-> 200, statusText |-> "",
     headers |-> Spread(JsonType @@ ("Cache-Control" :> "public, max-age=60"),
                        corsHeaders),
     body |-> sanitizedData(apiResponse)]

\* The response to a registry answer that is not ok.
LookupFailed(task, reply) ==
    LET body == IF task.route = "list"
                THEN [kind |-> "json", error |-> "Failed to fetch tunnels",
                      status |-> reply.status, statusText |-> reply.statusText]
                ELSE [kind |-> "json", error |-> "Failed to fetch tunnels"]
    IN  IF ResponseThrows(body, reply.status)
        THEN Caught(task)
        ELSE Respond(task,
                     [status |-> reply.status, statusText |-> "",
                      headers |-> Spread(JsonType, corsHeaders),
                      body |-> body])

\* The handler resolving the id to the last of its records in the list.
AfterLookup_lastMatch(e, task, reply) ==
    IF reply.kind = "throw" THEN Caught(task)
    ELSE IF ~Ok(reply.status) THEN LookupFailed(task, reply)
    ELSE LET apiResponse == reply.json
             hits == {i \in 1..Len(apiResponse.data) :
                        apiResponse.data[i].clientId = task.tunnelId}
         IN  IF task.route = "list"
             THEN Respond(task, ListResponse(apiResponse))
             ELSE IF hits = {}
                  THEN Respond(task, ErrorResponse(404, "Tunnel not found"))
                  ELSE Forward(e, task,
                               apiResponse.data[CHOOSE i \in hits :
                                                   \A j \in hits : j <= i])

\* The handler from the return of the registry lookup to its next await or
\* return.
AfterLookup(e, task, reply) ==
    IF reply.kind = "throw" THEN Caught(task)
    ELSE IF ~Ok(reply.status) THEN LookupFailed(task, reply)
    ELSE LET apiResponse == reply.json
         IN  IF task.route = "list"
             THEN Respond(task, ListResponse(apiResponse))
             ELSE IF find(apiResponse.data, task.tunnelId) = <<>>
                  THEN Respond(task, ErrorResponse(404, "Tunnel not found"))
                  ELSE Forward(e, task, find(apiResponse.data, task.tunnelId)[1])

\* Every route re-wraps the answer as the reserved routes do: the body read
\* as text, Content-Type application/json and the CORS headers.
AfterTunnel_rewrapped(task, reply) ==
    IF reply.kind = "throw" THEN Caught(task)
    ELSE IF ResponseThrows(Text(reply.body), reply.status)
         THEN Caught(task)
         ELSE Respond(task,
                      [status |-> reply.status,
                       statusText |-> reply.statusText,
                       headers |-> Spread(corsHeaders, JsonType),
                       body |-> Text(reply.body)])

\* The handler from the return of the tunnel call to its return.
AfterTunnel(task, reply) ==
    IF reply.kind = "throw" THEN Caught(task)
    ELSE IF task.route = "generic"
         THEN Respond(task,
                      [status |-> reply.status, statusText |-> reply.statusText,
                       headers |-> reply.headers, body |-> reply.body])
         ELSE IF ResponseThrows(Text(reply.body), reply.status)
              THEN Caught(task)
              ELSE Respond(task,
                           [status |-> reply.status,
                            statusText |-> reply.statusText,
                            headers |-> Spread(corsHeaders, JsonType),
                            body |-> Text(reply.body)])

\* A failed delegation answered as a failure instead of by the info payload.
AfterAssets_failed(task, reply) ==
    IF reply.kind = "throw"
    THEN Respond(task, ErrorResponse(500, "Internal server error"))
    ELSE Respond(task,
                 [status |-> reply.status, statusText |-> reply.statusText,
                  headers |-> reply.headers, body |-> reply.body])

\* The default route after the static-asset collaborator answered or threw.
AfterAssets(task, reply) ==
    IF reply.kind = "throw"
    THEN Respond(task, InfoResponse)
    ELSE Respond(task,
                 [status |-> reply.status, statusText |-> reply.statusText,
                  headers |-> reply.headers, body |-> reply.body])

(***************************************************************************)
(* Inputs: configurations, inbound requests, answers of the collaborators  *)
(***************************************************************************)

\* The longest registry snapshot.
MaxRecords == 2

ClientIds == {"a", "b"}

\* ALLOWED_CLIENT_IDS: unset, empty, "a", and " a ,c".
AllowLists ==
    {Undefined, Defined(<<>>), Defined(<<"a">>),
     Defined(<<" ", "a", " ", ",", "c">>)}

\* LOCAL_TUNNEL_URLS: unset, "a=<local>", "c=<up>, a = <local>", and "a"
\* (an entry without '=').
LocalTunnelUrls ==
    {Undefined, Defined(<<"a", "=", LocalUrl>>),
     Defined(<<"c", "=", UpUrl, ",", " ", "a", " ", "=", " ", LocalUrl>>),
     Defined(<<"a">>)}

Envs ==
    [ALLOWED_CLIENT_IDS : AllowLists, LOCAL_TUNNEL_URLS : LocalTunnelUrls,
     ASSETS : BOOLEAN]

Methods == {"GET", "POST", "DELETE", "OPTIONS"}

\* The paths after /tunnel/:id.
Remainders ==
    {<<>>, <<"">>, <<"x">>, <<"api", "registry">>, <<"api", "invoke">>,
     <<"api", "grpc", "registry">>}

Pathnames ==
    {<<"tunnels">>, <<"">>, <<"tunnel">>, <<"tunnel", "", "x">>}
    \cup {<<"tunnel", id>> \o rem : id \in ClientIds, rem \in Remainders}

Searches == {"", "?a=1&b=2"}

Authorization == "Authorization" :> "Bearer token"

HeaderSets ==
    {Authorization, Authorization @@ ("Content-Type" :> "text/plain")}

Payload == [kind |-> "text", text |-> "payload"]

\* The inbound requests: a POST has a body, the other methods have none.
Requests ==
    {[method |-> m, pathname |-> p, search |-> q, headers |-> h,
      body |-> IF m = "POST" THEN Payload ELSE NullBody] :
        m \in Methods, p \in Pathnames, q \in Searches, h \in HeaderSets}

TunnelRecords ==
    {[clientId |-> id, tunnelUrl |-> u, updatedAt |-> 2, createdAt |-> 1] :
        id \in ClientIds, u \in {UpUrl, OtherUrl}}

Snapshots == UNION {[1..n -> TunnelRecords] : n \in 0..MaxRecords}

StatusText(status) ==
    CASE status = 200 -> "OK"
      [] status = 304 -> "Not Modified"
      [] status = 404 -> "Not Found"
      [] status = 503 -> "Service Unavailable"

Throw == [kind |-> "throw"]

\* What the registry lookup can come back with: a transport failure, a
\* status that is not ok, or the list of the live tunnels.
RegistryReplies ==
    {Throw}
    \cup {[kind |-> "response", status |-> s, statusText |-> StatusText(s)] :
            s \in {304, 503}}
    \cup {[kind |-> "response", status |-> 200, statusText |-> StatusText(200),
           json |-> [success |-> TRUE, data |-> snap, count |-> Len(snap)]] :
            snap \in Snapshots}

UpstreamBody == [kind |-> "text", text |-> "upstream"]

UpstreamHeaders == "Content-Type" :> "text/html"

\* What a tunnel endpoint can come back with.
TunnelReplies ==
    {Throw}
    \cup {[kind |-> "response", status |-> s, statusText |-> StatusText(s),
           headers |-> UpstreamHeaders,
           body |-> IF NullBodyStatus(s) THEN NullBody ELSE UpstreamBody] :
            s \in {200, 304, 404}}
    \cup {[kind |-> "response", status |-> 200, statusText |-> StatusText(200),
           headers |-> UpstreamHeaders @@ ("Access-Control-Allow-Origin" :> "*"),
           body |-> UpstreamBody]}

\* What the static-asset collaborator can come back with.
AssetsReplies ==
    {Throw}
    \cup {[kind |-> "response", status |-> s, statusText |-> StatusText(s),
           headers |-> UpstreamHeaders, body |-> UpstreamBody] :
            s \in {200, 404}}

(***************************************************************************)
(* The UI API client                                                       *)
(***************************************************************************)

Services == {"S", "S2"}

\* The processes of a tunnel endpoint's registry: P1 exposes service S, P2
\* exposes none; no process exposes S2.
available_processes ==
    <<[name |-> "P1", services |-> <<"S">>], [name |-> "P2", services |-> <<>>]>>

\* The request executeTunnelRequest(clientId, path, options) sends to the
\* worker: the options' headers over a default Content-Type.
executeTunnelRequest(clientId, path, options) ==
    [method |-> options.method,
     pathname |-> <<"tunnel", clientId>> \o path,
     search |-> "",
     headers |-> Spread("Content-Type" :> "application/json", options.headers),
     body |-> options.body]

\* The request of executeGrpcWebRequest(clientId, service, method, data).
executeGrpcWebRequest(clientId, service, method, data) ==
    executeTunnelRequest(clientId, <<"grpc", service, method>>,
        [method |-> "POST",
         headers |-> "Content-Type" :> "application/grpc-web+json",
         body |-> [kind |-> "text", text |-> data]])

\* The request of fetchGrpcRegistry(clientId).
fetchGrpcRegistry(clientId) ==
    executeTunnelRequest(clientId, <<"api", "grpc", "registry">>,
        [method |-> "GET",
         headers |-> "Accept" :> "application/json",
         body |-> NullBody])

\* What listGrpcServices(clientId) resolves to when the worker answers
\* fetchGrpcRegistry with response and payload is the registry the tunnel
\* endpoint serves: [] when the answer is not ok (fetchGrpcRegistry throws,
\* listGrpcServices catches), otherwise the services of the process named
\* as the client, or [] when there is none.
listGrpcServices(clientId, response, payload) ==
    IF ~Ok(response.status)
    THEN <<>>
    ELSE LET hits == {i \in 1..Len(payload) : payload[i].name = clientId}
         IN  IF hits = {} THEN <<>>
             ELSE payload[CHOOSE i \in hits : \A j \in hits : i <= j].services

(***************************************************************************)
(* The RPC client object and the two components, as they are constructed   *)
(***************************************************************************)

\* null
Null == [kind |-> "null"]

\* new GrpcWebRpc(host): no call made yet.  pending counts the grpc.unary
\* calls in flight; called, thrown and issued describe the latest call: its
\* method, the message of the error it threw ("" when it returned) and the
\* number of network requests it issued.
RpcInit == [pending |-> 0, called |-> "", thrown |-> "", issued |-> 0]

\* The useState initial values of MethodExecutor; clientId "" stands for no
\* selection (the component is not rendered).  loads and execs are the
\* calls of loadGrpcServices and executeRequest that are awaiting, each
\* with the clientId of the render that started it.
ExecutorInit ==
    [clientId |-> "", requestBody |-> "{}", service |-> "", method |-> "",
     response |-> Null, loading |-> FALSE, error |-> Null,
     grpcServices |-> <<>>, loadingServices |-> FALSE,
     loads |-> <<>>, execs |-> <<>>]

\* The useState initial values of TunnelList, before its mount effect ran;
\* loads counts the calls of loadTunnels that are awaiting and settled is
\* what the latest call of fetchTunnels came back with.
TunnelListInit ==
    [mounted |-> FALSE, tunnels |-> <<>>, loading |-> TRUE, error |-> Null,
     loads |-> 0, settled |-> Null]

UiInit ==
    /\ rpc = RpcInit
    /\ executor = ExecutorInit
    /\ tunnelList = TunnelListInit

(***************************************************************************)
(* The worker                                                              *)
(***************************************************************************)

Init ==
    /\ env \in Envs
    /\ tasks = [t \in Tasks |-> Idle]
    /\ registry = <<>>
    /\ UiInit

\* The worker is invoked with an inbound request.
fetch(t, req) ==
    /\ tasks[t].pc = "idle"
    /\ tasks' = [tasks EXCEPT ![t] = Begin(env, req)]
    /\ UNCHANGED <<env, registry, ui>>

\* The registry lookup of a task returns.
RegistryReturns(t, reply) ==
    /\ tasks[t].pc = "registry"
    /\ tasks' = [tasks EXCEPT ![t] = AfterLookup(env, Resume(tasks[t], reply), reply)]
    /\ UNCHANGED <<env, registry, ui>>

\* The call of a task to the tunnel endpoint returns.
TunnelReturns(t, reply) ==
    /\ tasks[t].pc = "tunnel"
    /\ tasks' = [tasks EXCEPT ![t] = AfterTunnel(Resume(tasks[t], reply), reply)]
    /\ UNCHANGED <<env, registry, ui>>

\* The delegation of a task to the static assets returns.
AssetsReturns(t, reply) ==
    /\ tasks[t].pc = "assets"
    /\ tasks' = [tasks EXCEPT ![t] = AfterAssets(Resume(tasks[t], reply), reply)]
    /\ UNCHANGED <<env, registry, ui>>

\* The response has been delivered; the task ends.
Finish(t) ==
    /\ tasks[t].pc = "done"
    /\ tasks' = [tasks EXCEPT ![t] = Idle]
    /\ UNCHANGED <<env, registry, ui>>

\* The UI invokes method M of a service of a client through the worker.
Invoke(t, clientId, service) ==
    fetch(t, executeGrpcWebRequest(clientId, service, "M", "{}"))

\* The UI asks the worker for the registry of a client's tunnel endpoint.
FetchRegistry(t, clientId) == fetch(t, fetchGrpcRegistry(clientId))

Next ==
    \/ \E t \in Tasks, req \in Requests : fetch(t, req)
    \/ \E t \in Tasks, id \in ClientIds, svc \in Services : Invoke(t, id, svc)
    \/ \E t \in Tasks, id \in ClientIds : FetchRegistry(t, id)
    \/ \E t \in Tasks, reply \in RegistryReplies : RegistryReturns(t, reply)
    \/ \E t \in Tasks, reply \in TunnelReplies : TunnelReturns(t, reply)
    \/ \E t \in Tasks, reply \in AssetsReplies : AssetsReturns(t, reply)
    \/ \E t \in Tasks : Finish(t)

Spec == Init /\ [][Next]_vars

(***************************************************************************)
(* Vocabulary of the properties                                            *)
(***************************************************************************)

\* The inbound path is under /tunnel/:id.
UnderTunnel(req) ==
    Len(req.pathname) >= 2 /\ req.pathname[1] = "tunnel" /\ req.pathname[2] # ""

\* The identity the inbound path names.
IdOf(req) == req.pathname[2]

\* The path that follows /tunnel/:id has the given segments.
SubPathIs(req, segs) ==
    UnderTunnel(req) /\ req.pathname = <<"tunnel", IdOf(req)>> \o segs

\* id is one of the comma-separated entries of the text s, blanks around
\* the entry not counted.
IsEntry(s, id) ==
    \E i \in 1..Len(s), j \in 1..Len(s) :
        /\ i <= j
        /\ i = 1 \/ s[i - 1] = ","
        /\ j = Len(s) \/ s[j + 1] = ","
        /\ \A k \in i..j : s[k] # ","
        /\ \E i2 \in i..j, j2 \in i..j :
              /\ i2 <= j2
              /\ \A k \in i..(i2 - 1) : s[k] = " "
              /\ \A k \in (j2 + 1)..j : s[k] = " "
              /\ s[i2] # " " /\ s[j2] # " "
              /\ Str(SubSeq(s, i2, j2)) = id

\* An allowlist is configured and not empty.
AllowlistConfigured == env.ALLOWED_CLIENT_IDS.defined /\ env.ALLOWED_CLIENT_IDS.value # <<>>

\* The access decision for id is Allow.
AccessAllowed(id) ==
    ~AllowlistConfigured \/ IsEntry(env.ALLOWED_CLIENT_IDS.value, id)

\* The calls a task made to a tunnel endpoint.
TunnelCallsOf(task) ==
    {task.calls[i] : i \in {k \in 1..Len(task.calls) : task.calls[k].to = "tunnel"}}

RegistryCallsOf(task) ==
    {task.calls[i] : i \in {k \in 1..Len(task.calls) : task.calls[k].to = "registry"}}

\* The registry lookup of the task returned a snapshot.
HasSnapshot(task) ==
    /\ Len(task.calls) >= 1 /\ task.calls[1].to = "registry"
    /\ Len(task.replies) >= 1 /\ task.replies[1].kind = "response"
    /\ task.replies[1].status = 200

SnapshotOf(task) == task.replies[1].json.data

InSnapshot(task, id) ==
    \E i \in 1..Len(SnapshotOf(task)) : SnapshotOf(task)[i].clientId = id

\* The task answered with exactly one response, of the given status and
\* error.
AnsweredError(task, status, error) ==
    /\ task.pc = "done"
    /\ Len(task.responses) = 1
    /\ task.responses[1].status = status
    /\ task.responses[1].body.kind = "json"
    /\ "error" \in DOMAIN task.responses[1].body
    /\ task.responses[1].body.error = error

(***************************************************************************)
(* Properties                                                              *)
(***************************************************************************)

\* C1: a request under /tunnel/:id/* (any method but OPTIONS, any remaining
\* path) whose id is not in a configured non-empty allowlist is answered 403
\* Forbidden and makes no outbound call at all.
C1_DeniedIs403 ==
    \A t \in Tasks :
        LET task == tasks[t] IN
        (/\ task.pc # "idle"
         /\ task.request.method # "OPTIONS"
         /\ UnderTunnel(task.request)
         /\ AllowlistConfigured
         /\ ~AccessAllowed(IdOf(task.request)))
        => /\ task.calls = <<>>
           /\ AnsweredError(task, 403, "Forbidden")

\* C2: a request under /tunnel/:id/* whose id passed the access check and is
\* absent from the snapshot its registry lookup returned is answered 404
\* Tunnel not found, and its only outbound call is the registry lookup.
C2_AbsentIs404 ==
    \A t \in Tasks :
        LET task == tasks[t] IN
        (/\ task.pc # "idle"
         /\ UnderTunnel(task.request)
         /\ HasSnapshot(task)
         /\ ~InSnapshot(task, IdOf(task.request)))
        => /\ AnsweredError(task, 404, "Tunnel not found")
           /\ Len(task.calls) = 1
           /\ TunnelCallsOf(task) = {}

\* C2 witness: the 404 of the registry-probe route for an identity that has
\* a local endpoint override but no record in the snapshot.
C2_Witness ==
    \E t \in Tasks :
        LET task == tasks[t] IN
        /\ task.pc = "done"
        /\ task.request.method = "GET"
        /\ SubPathIs(task.request, <<"api", "registry">>)
        /\ IdOf(task.request) = "a"
        /\ env.LOCAL_TUNNEL_URLS = Defined(<<"a", "=", LocalUrl>>)
        /\ HasSnapshot(task)
        /\ SnapshotOf(task) # <<>>
        /\ ~InSnapshot(task, "a")
        /\ AnsweredError(task, 404, "Tunnel not found")

\* The inbound path is a reserved sub-path of a tunnel: the registry probe
\* or the invoke sub-path.
ReservedSubPath(req) ==
    SubPathIs(req, <<"api", "registry">>) \/ SubPathIs(req, <<"api", "invoke">>)

\* The method the reserved sub-path supports.
SupportedMethod(req) ==
    IF SubPathIs(req, <<"api", "registry">>) THEN "GET" ELSE "POST"

\* C3: a request to a reserved sub-path with a method the sub-route does not
\* support is never forwarded to the tunnel endpoint and, for an allowlisted
\* and resolvable id, its answer is 405 Method Not Allowed.
C3_ReservedMethodGuard ==
    \A t \in Tasks :
        LET task == tasks[t] IN
        (/\ task.pc # "idle"
         /\ ReservedSubPath(task.request)
         /\ task.request.method \notin {SupportedMethod(task.request), "OPTIONS"})
        => /\ TunnelCallsOf(task) = {}
           /\ (/\ task.pc = "done"
               /\ AccessAllowed(IdOf(task.request))
               /\ HasSnapshot(task)
               /\ InSnapshot(task, IdOf(task.request)))
              => AnsweredError(task, 405, "Method Not Allowed")

\* C4: every response of the worker, on every route and for every outcome,
\* has the header Access-Control-Allow-Origin: *.
C4_CorsOnEveryResponse ==
    \A t \in Tasks :
        \A i \in 1..Len(tasks[t].responses) :
            LET headers == tasks[t].responses[i].headers IN
            /\ "Access-Control-Allow-Origin" \in DOMAIN headers
            /\ headers["Access-Control-Allow-Origin"] = "*"

\* The first record of the identity in the snapshot of the task.
ResolvedRecord(task) ==
    LET data == SnapshotOf(task)
        i == CHOOSE k \in 1..Len(data) :
                /\ data[k].clientId = IdOf(task.request)
                /\ \A j \in 1..(k - 1) : data[j].clientId # IdOf(task.request)
    IN  data[i]

\* C5: on the generic route the outbound target has the scheme and host of
\* the resolved endpoint base, as path the part of the inbound path after
\* /tunnel/:id (the root path when nothing follows the id) whatever the path
\* of the base, and as query the inbound query whatever the query of the
\* base.
C5_TargetIsRewritten ==
    \A t \in Tasks :
        LET task == tasks[t] IN
        (task.pc # "idle" /\ task.route = "generic")
        => \A c \in TunnelCallsOf(task) :
              LET base == ParseURL(ResolvedRecord(task).tunnelUrl) IN
              /\ c.url.scheme = base.scheme
              /\ c.url.host = base.host
              /\ IF task.request.pathname = <<"tunnel", IdOf(task.request)>>
                 THEN c.url.pathname = <<"">>
                 ELSE <<"tunnel", IdOf(task.request)>> \o c.url.pathname
                        = task.request.pathname
              /\ c.url.search = task.request.search

\* C5 witness: /tunnel/a/x?a=1&b=2 forwarded to a base that has a path and
\* a query of its own.
C5_Witness ==
    \E t \in Tasks :
        LET task == tasks[t] IN
        /\ task.route = "generic"
        /\ task.request.pathname = <<"tunnel", "a", "x">>
        /\ task.request.search = "?a=1&b=2"
        /\ \E c \in TunnelCallsOf(task) :
              /\ ResolvedRecord(task).tunnelUrl = UpUrl
              /\ c.url = [scheme |-> "https", host |-> "up.example",
                          pathname |-> <<"x">>, search |-> "?a=1&b=2"]

\* C6: the body of a successful GET /tunnels response has success, count
\* and, for each record of the registry in order, clientId, updatedAt and
\* createdAt only; no tunnel URL is a value of it.
C6_ListIsSanitized ==
    \A t \in Tasks :
        LET task == tasks[t] IN
        (task.pc = "done" /\ task.route = "list" /\ HasSnapshot(task))
        => LET body == task.responses[1].body
               data == SnapshotOf(task)
           IN  /\ task.responses[1].status = 200
               /\ DOMAIN body = {"kind", "success", "data", "count"}
               /\ body.success = task.replies[1].json.success
               /\ body.count = task.replies[1].json.count
               /\ Len(body.data) = Len(data)
               /\ \A i \in 1..Len(data) :
                     /\ DOMAIN body.data[i] = {"clientId", "updatedAt", "createdAt"}
                     /\ body.data[i].clientId = data[i].clientId
                     /\ body.data[i].updatedAt = data[i].updatedAt
                     /\ body.data[i].createdAt = data[i].createdAt

\* C6 witness: a list answered from a snapshot of two records.
C6_Witness ==
    \E t \in Tasks :
        LET task == tasks[t] IN
        /\ task.pc = "done" /\ task.route = "list" /\ HasSnapshot(task)
        /\ Len(SnapshotOf(task)) = 2
        /\ SnapshotOf(task)[1].clientId # SnapshotOf(task)[2].clientId
        /\ Len(task.responses[1].body.data) = 2

\* The identity has a local endpoint override, and this is its URL text.
HasOverride(id) ==
    /\ Truthy(env.LOCAL_TUNNEL_URLS)
    /\ ~LocalOverride(env, id, "").threw
    /\ LocalOverride(env, id, "").baseUrl # ""

\* C7: every route that forwards to an identity's endpoint sends its
\* outbound request to the local override of the identity when it has one,
\* and to the registry-provided endpoint when it has none.
C7_OverrideOnEveryRoute ==
    \A t \in Tasks :
        LET task == tasks[t] IN
        task.pc # "idle"
        => \A c \in TunnelCallsOf(task) :
              LET id == IdOf(task.request)
                  endpoint == IF HasOverride(id)
                              THEN ParseURL(LocalOverride(env, id, "").baseUrl)
                              ELSE ParseURL(ResolvedRecord(task).tunnelUrl)
              IN  c.url.scheme = endpoint.scheme /\ c.url.host = endpoint.host

\* The request is an RPC invocation issued by the UI client.
IsInvocation(req) ==
    /\ req.method = "POST"
    /\ \E svc \in Services : SubPathIs(req, <<"grpc", svc, "M">>)

\* The processes, in registry order, that expose the service.
Exposing(svc) ==
    {i \in 1..Len(available_processes) :
        includes(available_processes[i].services, svc)}

\* C8: an invocation of method M of service S sends {process, service,
\* method, data} to the invoke endpoint, the process being the first one of
\* the process registry that exposes S; when no process exposes S nothing
\* is sent to a tunnel endpoint and the answer is service_not_found.
C8_RpcResolution ==
    \A t \in Tasks :
        LET task == tasks[t]
            svc == task.request.pathname[4]
        IN
        (task.pc # "idle" /\ IsInvocation(task.request))
        => IF Exposing(svc) # {}
           THEN LET first == CHOOSE i \in Exposing(svc) :
                                \A j \in Exposing(svc) : i <= j
                IN  \A c \in TunnelCallsOf(task) :
                       /\ c.url.pathname = <<"api", "invoke">>
                       /\ c.body = [kind |-> "json",
                                    process |-> available_processes[first].name,
                                    service |-> svc, method |-> "M",
                                    data |-> "{}"]
           ELSE /\ TunnelCallsOf(task) = {}
                /\ (task.pc = "done" /\ HasSnapshot(task)
                    /\ InSnapshot(task, IdOf(task.request)))
                   => AnsweredError(task, 404, "service_not_found")

(***************************************************************************)
(* The access decision over all short allowlist texts                      *)
(***************************************************************************)

\* The longest allowlist text.
MaxLen == 4

Alphabet == {"a", "b", " ", ","}

AllowListTexts == UNION {[1..n -> Alphabet] : n \in 0..MaxLen}

AccessIds == {"a", "b", "ab"}

\* One request per tunnel route and identity.
AccessRequests ==
    {[method |-> r[1], pathname |-> <<"tunnel", id>> \o r[2], search |-> "",
      headers |-> Authorization,
      body |-> IF r[1] = "POST" THEN Payload ELSE NullBody] :
        id \in AccessIds,
        r \in {<<"GET", <<"api", "registry">>>>, <<"POST", <<"api", "invoke">>>>,
               <<"GET", <<"x">>>>}}

InitAccess ==
    /\ env \in [ALLOWED_CLIENT_IDS : {Undefined} \cup {Defined(s) : s \in AllowListTexts},
                LOCAL_TUNNEL_URLS : {Undefined},
                ASSETS : {FALSE}]
    /\ tasks = [t \in Tasks |-> Idle]
    /\ registry = <<>>
    /\ UiInit

NextAccess ==
    \/ \E t \in Tasks, req \in AccessRequests : fetch(t, req)
    \/ \E t \in Tasks, reply \in RegistryReplies : RegistryReturns(t, reply)
    \/ \E t \in Tasks, reply \in TunnelReplies : TunnelReturns(t, reply)
    \/ \E t \in Tasks : Finish(t)

SpecAccess == InitAccess /\ [][NextAccess]_vars

\* The path after /tunnel/:id starts with /api/grpc/.
UnderGrpcApi(req) ==
    /\ Len(req.pathname) >= 5
    /\ req.pathname[3] = "api" /\ req.pathname[4] = "grpc"

\* C9: on each of the three tunnel routes the request is let through to the
\* registry lookup exactly when no allowlist is configured, or the
\* configured text is empty, or the identity is one of its comma-separated
\* entries with the blanks around the entry removed; otherwise it is
\* answered 403 with no outbound call.
C9_AccessDecision ==
    \A t \in Tasks :
        LET task == tasks[t] IN
        (/\ task.pc # "idle"
         /\ task.request.method # "OPTIONS"
         /\ UnderTunnel(task.request)
         /\ ~UnderGrpcApi(task.request))
        => IF AccessAllowed(IdOf(task.request))
           THEN /\ Len(task.calls) >= 1
                /\ task.calls[1] = RegistryCall(task.request)
                /\ ~AnsweredError(task, 403, "Forbidden")
           ELSE /\ task.calls = <<>>
                /\ AnsweredError(task, 403, "Forbidden")

\* C9 witness: identity a is let through on the invoke route by the entry
\* " a " of the allowlist, which holds it between blanks.
C9_Witness ==
    \E t \in Tasks :
        LET task == tasks[t] IN
        /\ env.ALLOWED_CLIENT_IDS = Defined(<<" ", "a", " ">>)
        /\ task.request.method = "POST"
        /\ SubPathIs(task.request, <<"api", "invoke">>)
        /\ IdOf(task.request) = "a"
        /\ task.pc = "registry"
        /\ task.calls = <<RegistryCall(task.request)>>

(***************************************************************************)
(* Route precedence                                                        *)
(***************************************************************************)

AssetsCallsOf(task) ==
    {task.calls[i] : i \in {k \in 1..Len(task.calls) : task.calls[k].to = "assets"}}

\* C10: a request is handled by the first route that matches it, in the
\* order OPTIONS, GET /tunnels, GET registry probe, POST invoke, generic
\* /tunnel/:id/*, default, and by that route only: its outbound calls and
\* its answer are those of that route.
C10_FirstMatchWins ==
    \A t \in Tasks :
        LET task == tasks[t]
            req == task.request
        IN
        task.pc # "idle"
        => IF req.method = "OPTIONS"
           THEN /\ task.calls = <<>>
                /\ task.responses = <<PreflightResponse>>
           ELSE IF req.pathname = <<"tunnels">> /\ req.method = "GET"
           THEN task.calls = <<RegistryCall(req)>>
           ELSE IF SubPathIs(req, <<"api", "registry">>) /\ req.method = "GET"
           THEN /\ AssetsCallsOf(task) = {}
                /\ \A c \in TunnelCallsOf(task) :
                      /\ c.method = "GET"
                      /\ c.url.pathname = <<"api", "registry">>
                      /\ c.headers = ("Accept" :> "application/json")
                      /\ c.body = NullBody
           ELSE IF SubPathIs(req, <<"api", "invoke">>) /\ req.method = "POST"
           THEN /\ AssetsCallsOf(task) = {}
                /\ \A c \in TunnelCallsOf(task) :
                      /\ c.method = "POST"
                      /\ c.url.pathname = <<"api", "invoke">>
                      /\ DOMAIN c.headers \subseteq {"Content-Type"}
           ELSE IF UnderTunnel(req)
           THEN /\ AssetsCallsOf(task) = {}
                /\ \A c \in TunnelCallsOf(task) :
                      /\ c.method = req.method
                      /\ c.headers = req.headers
                      /\ c.body = req.body
           ELSE /\ RegistryCallsOf(task) = {}
                /\ TunnelCallsOf(task) = {}
                /\ env.ASSETS => task.calls = <<AssetsCall(req)>>
                /\ ~env.ASSETS => task.responses = <<InfoResponse>>

\* C10 witness: GET on the registry-probe sub-path is forwarded by the
\* registry route, with the fixed Accept header only, although the generic
\* pattern matches the path too.
C10_Witness ==
    \E t \in Tasks :
        LET task == tasks[t] IN
        /\ task.request.method = "GET"
        /\ SubPathIs(task.request, <<"api", "registry">>)
        /\ tunnelMatch(task.request.pathname)
        /\ task.request.headers = Authorization
        /\ \E c \in TunnelCallsOf(task) :
              c.headers = ("Accept" :> "application/json")

(***************************************************************************)
(* Order of the outbound calls                                             *)
(***************************************************************************)

\* The number of calls of the task that have not come back.
Outstanding(task) == Len(task.calls) - Len(task.replies)

\* C11: in a request of a tunnel route the access check, the registry
\* lookup and the call to the tunnel endpoint happen in that order, each
\* after the previous one succeeded: at most two calls, at most one not yet
\* returned, the first to the registry and only for an allowed id, the
\* second to the tunnel endpoint and only after the lookup returned a
\* snapshot that has a record of the id.
C11_CallsInOrder ==
    \A t \in Tasks :
        LET task == tasks[t] IN
        (/\ task.pc # "idle"
         /\ task.request.method # "OPTIONS"
         /\ UnderTunnel(task.request))
        => /\ Len(task.calls) <= 2
           /\ Outstanding(task) \in {0, 1}
           /\ Outstanding(task) = 1 <=> task.pc \in {"registry", "tunnel"}
           /\ Len(task.calls) >= 1
              => /\ task.calls[1].to = "registry"
                 /\ AccessAllowed(IdOf(task.request))
           /\ Len(task.calls) = 2
              => /\ task.calls[2].to = "tunnel"
                 /\ HasSnapshot(task)
                 /\ InSnapshot(task, IdOf(task.request))

\* C11 witness: an allowlisted id whose lookup returned its record, the
\* call to the tunnel endpoint being the second call and not yet returned.
C11_Witness ==
    \E t \in Tasks :
        LET task == tasks[t] IN
        /\ task.pc = "tunnel"
        /\ AllowlistConfigured
        /\ UnderTunnel(task.request)
        /\ Len(task.calls) = 2 /\ Len(task.replies) = 1
        /\ task.calls[1].to = "registry" /\ task.calls[2].to = "tunnel"
        /\ InSnapshot(task, IdOf(task.request))

(***************************************************************************)
(* Relaying and failures                                                   *)
(***************************************************************************)

\* The tunnel endpoint answered the task with a response.
TunnelAnswered(task) ==
    /\ Len(task.calls) = 2 /\ task.calls[2].to = "tunnel"
    /\ Len(task.replies) = 2 /\ task.replies[2].kind = "response"

\* The response is the 500 a catch block of the worker makes.
IsCaught(resp) ==
    /\ resp.status = 500
    /\ resp.body.kind = "json"
    /\ "error" \in DOMAIN resp.body
    /\ resp.body.error \in {CatchError(r) : r \in {"list", "registry", "invoke", "generic"}}

\* An outbound call of the task failed at transport level.
SomeCallThrew(task) ==
    \E i \in 1..Len(task.replies) : task.replies[i].kind = "throw"

\* C12: a status other than 2xx with which the tunnel endpoint answers is
\* relayed to the caller with the endpoint's body on the generic,
\* registry-probe and invoke routes; it is never turned into a 500 of the
\* worker, which is made only when an outbound call threw.
C12_NonOkIsRelayed ==
    \A t \in Tasks :
        LET task == tasks[t] IN
        (/\ task.pc = "done"
         /\ TunnelAnswered(task)
         /\ ~Ok(task.replies[2].status))
        => /\ task.responses[1].status = task.replies[2].status
           /\ task.responses[1].body
                \in {task.replies[2].body, Text(task.replies[2].body)}
           /\ IsCaught(task.responses[1]) => SomeCallThrew(task)

\* The answers of the registry lookup with a list of at most one tunnel.
ShortRegistryReplies ==
    {reply \in RegistryReplies : "json" \in DOMAIN reply => reply.json.count <= 1}

\* An awaited call settles: it comes back with a response or it throws.
Settles(t) ==
    \/ \E reply \in ShortRegistryReplies : RegistryReturns(t, reply)
    \/ \E reply \in TunnelReplies : TunnelReturns(t, reply)
    \/ \E reply \in AssetsReplies : AssetsReturns(t, reply)

NextLive ==
    \/ \E t \in Tasks, req \in Requests : fetch(t, req)
    \/ \E t \in Tasks, id \in ClientIds, svc \in Services : Invoke(t, id, svc)
    \/ \E t \in Tasks : Settles(t)
    \/ \E t \in Tasks : Finish(t)

\* The worker with every awaited call settling.
SpecLive == Init /\ [][NextLive]_vars /\ \A t \in Tasks : WF_vars(Settles(t))

\* At most one response, and one exactly when the handler has returned; a
\* call that threw is answered by the 500 of the route's catch block, a JSON
\* body {error, message} with the CORS headers, or on the default route by
\* the info payload.
FailuresAnswered ==
    \A t \in Tasks :
        LET task == tasks[t] IN
        /\ task.pc \in {"idle", "registry", "tunnel", "assets", "done"}
        /\ Len(task.responses) = IF task.pc = "done" THEN 1 ELSE 0
        /\ SomeCallThrew(task)
           => /\ task.pc = "done"
              /\ IF task.calls[Len(task.replies)].to = "assets"
                 THEN task.responses[1] = InfoResponse
                 ELSE /\ task.responses[1].status = 500
                      /\ task.responses[1].body.kind = "json"
                      /\ DOMAIN task.responses[1].body = {"kind", "error", "message"}
                      /\ \A h \in DOMAIN corsHeaders :
                            /\ h \in DOMAIN task.responses[1].headers
                            /\ task.responses[1].headers[h] = corsHeaders[h]

LookupRefused(task) ==
    /\ Len(task.replies) >= 1
    /\ task.calls[1].to = "registry"
    /\ task.replies[1].kind = "response"
    /\ ~Ok(task.replies[1].status)

\* C14: the registry is looked up at most once per request; when it answers
\* with a status that is not a success the request ends with a response of
\* that status, without a second lookup and without a tunnel call.
C14_LookupOnceNoRetry ==
    \A t \in Tasks :
        LET task == tasks[t] IN
        /\ Cardinality({i \in 1..Len(task.calls) : task.calls[i].to = "registry"}) <= 1
        /\ LookupRefused(task)
           => /\ task.pc = "done"
              /\ Len(task.calls) = 1
              /\ task.responses[1].status = task.replies[1].status

(***************************************************************************)
(* Concurrent requests and a registry that changes                         *)
(***************************************************************************)

ConcTasks == {"t1", "t2"}

\* With and without an allowlist; no local override, no static assets.
ConcEnvs ==
    {e \in Envs : /\ e.ALLOWED_CLIENT_IDS \in {Undefined, Defined(<<"a">>)}
                  /\ e.LOCAL_TUNNEL_URLS = Undefined
                  /\ ~e.ASSETS}

\* One request for each tunnel route and each identity.
ConcRequests ==
    {req \in Requests :
        /\ req.search = "" /\ req.headers = Authorization
        /\ \/ req.method = "GET" /\ registryMatch(req.pathname)
           \/ req.method = "POST" /\ invokeMatch(req.pathname)
           \/ /\ req.method = "GET" /\ Len(req.pathname) = 3
              /\ req.pathname[1] = "tunnel" /\ req.pathname[3] = "x"}

\* The lists the registry authority goes through: no tunnel, or one.
ConcRegistries == {snap \in Snapshots : Len(snap) <= 1}

\* The answer of the registry authority that holds the list snap.
RegistryAnswer(snap) ==
    [kind |-> "response", status |-> 200, statusText |-> StatusText(200),
     json |-> [success |-> TRUE, data |-> snap, count |-> Len(snap)]]

ConcTunnelReplies ==
    {reply \in TunnelReplies :
        reply.kind = "response" => reply.status = 200 /\ reply.headers = UpstreamHeaders}

InitConc ==
    /\ env \in ConcEnvs
    /\ tasks = [t \in ConcTasks |-> Idle]
    /\ registry \in ConcRegistries
    /\ UiInit

\* A tunnel registers, moves to another endpoint or goes away.
RegistryUpdate(snap) ==
    /\ registry # snap
    /\ registry' = snap
    /\ UNCHANGED <<env, tasks, ui>>

\* The worker keeps the list of an earlier lookup: the lookup of a task comes
\* back with the list another task has already been given.
Lookup_cached(t) ==
    IF \E u \in DOMAIN tasks \ {t} : Len(tasks[u].replies) >= 1
    THEN \E u \in DOMAIN tasks \ {t} :
            /\ Len(tasks[u].replies) >= 1
            /\ RegistryReturns(t, tasks[u].replies[1])
    ELSE RegistryReturns(t, RegistryAnswer(registry))

\* The registry lookup of a task comes back with the list the authority
\* holds at that moment.
Lookup(t) == RegistryReturns(t, RegistryAnswer(registry))

NextConc ==
    \/ \E t \in ConcTasks, req \in ConcRequests : fetch(t, req)
    \/ \E snap \in ConcRegistries : RegistryUpdate(snap)
    \/ \E t \in ConcTasks : Lookup(t)
    \/ \E t \in ConcTasks, reply \in ConcTunnelReplies : TunnelReturns(t, reply)
    \/ \E t \in ConcTasks : Finish(t)

SpecConc == InitConc /\ [][NextConc]_vars

\* The step takes task t from its pending lookup to the outcome the list
\* the registry holds now gives it: 404 when the id is not in the list,
\* otherwise the call to the endpoint of the id's first record.
ResolvedNow(t) ==
    LET id == IdOf(tasks[t].request)
        hits == {i \in 1..Len(registry) : registry[i].clientId = id}
        new == tasks'[t]
    IN  IF hits = {}
        THEN AnsweredError(new, 404, "Tunnel not found") /\ Len(new.calls) = 1
        ELSE LET first == CHOOSE i \in hits : \A j \in hits : i <= j
                 base == ParseURL(registry[first].tunnelUrl)
             IN  /\ new.pc = "tunnel"
                 /\ Len(new.calls) = 2
                 /\ new.calls[2].to = "tunnel"
                 /\ new.calls[2].url.scheme = base.scheme
                 /\ new.calls[2].url.host = base.host

\* C15: the worker keeps no state across requests.  Whatever the
\* interleaving of two requests and of the registry's updates, the step
\* that ends a request's lookup resolves the id against the list the
\* registry holds at that moment (the new endpoint after a move, 404 after a
\* removal), a step of one request leaves the other request as it is, a
\* finished request leaves nothing behind and the bindings never change.
C15_NoSharedState ==
    /\ [][\A t \in DOMAIN tasks :
            (tasks[t].pc = "registry" /\ tasks'[t] # tasks[t]) => ResolvedNow(t)]_vars
    /\ [][\A t \in DOMAIN tasks :
            tasks'[t] # tasks[t]
            => /\ \A u \in DOMAIN tasks \ {t} : tasks'[u] = tasks[u]
               /\ tasks[t].pc = "done" => tasks'[t] = Idle]_vars
    /\ [][env' = env]_vars

\* C15 witness: two requests for the same id are in flight at once, the one
\* whose lookup came after the registry moved the id calls the new endpoint
\* while the other still calls the old one.
C15_Witness ==
    /\ DOMAIN tasks = ConcTasks
    /\ tasks["t1"].pc = "tunnel" /\ tasks["t2"].pc = "tunnel"
    /\ IdOf(tasks["t1"].request) = IdOf(tasks["t2"].request)
    /\ tasks["t1"].calls[2].url.host = "up.example"
    /\ tasks["t2"].calls[2].url.host = "other.example"
    /\ Len(registry) = 1 /\ registry[1].tunnelUrl = OtherUrl

\* C16: an OPTIONS request, whatever its path, is answered at once: the
\* handler returns without any outbound call and without an access check,
\* and its response has no body and carries the CORS headers.
C16_PreflightAtOnce ==
    \A t \in Tasks :
        LET task == tasks[t] IN
        (task.pc # "idle" /\ task.request.method = "OPTIONS")
        => /\ task.pc = "done"
           /\ task.calls = <<>>
           /\ Len(task.responses) = 1
           /\ task.responses[1].status = 200
           /\ task.responses[1].body = NullBody
           /\ task.responses[1].headers = corsHeaders

\* C16 witness: the preflight of a tunnel path whose id the configured
\* allowlist does not let through.
C16_Witness ==
    \E t \in Tasks :
        LET task == tasks[t] IN
        /\ task.pc = "done"
        /\ task.request.method = "OPTIONS"
        /\ UnderTunnel(task.request)
        /\ AllowlistConfigured
        /\ ~AccessAllowed(IdOf(task.request))
        /\ task.responses = <<PreflightResponse>>

\* C17: on the generic route the outbound request has the method, all the
\* headers and the body of the inbound request, and when the tunnel endpoint
\* answers, the response to the caller is that answer: its status, status
\* text, headers and body and nothing else.
C17_GenericIsTransparent ==
    \A t \in Tasks :
        LET task == tasks[t] IN
        (task.pc # "idle" /\ task.route = "generic")
        => /\ \A c \in TunnelCallsOf(task) :
                 /\ c.method = task.request.method
                 /\ c.headers = task.request.headers
                 /\ c.body = task.request.body
           /\ (task.pc = "done" /\ TunnelAnswered(task))
              => task.responses
                   = <<[status |-> task.replies[2].status,
                        statusText |-> task.replies[2].statusText,
                        headers |-> task.replies[2].headers,
                        body |-> task.replies[2].body]>>

\* C17 witness: a POST with a body and two headers forwarded on the generic
\* route, the 404 of the endpoint handed back as it came.
C17_Witness ==
    \E t \in Tasks :
        LET task == tasks[t] IN
        /\ task.pc = "done" /\ task.route = "generic"
        /\ task.request.method = "POST"
        /\ task.request.body = Payload
        /\ DOMAIN task.request.headers = {"Authorization", "Content-Type"}
        /\ TunnelAnswered(task)
        /\ task.calls[2].body = Payload
        /\ task.replies[2].status = 404
        /\ task.responses[1].status = 404
        /\ task.responses[1].headers = UpstreamHeaders

\* C18: on the registry-probe route and on the invoke route the tunnel
\* endpoint is sent none of the caller's headers but, on the invoke route,
\* the caller's Content-Type when there is one; the registry-probe route
\* sends the fixed Accept header only.  The caller's Authorization header is
\* in the lookup sent to the registry authority and in no call to the tunnel
\* endpoint.
C18_NoHeaderLeak ==
    \A t \in Tasks :
        LET task == tasks[t]
            own == task.request.headers
        IN
        (task.pc # "idle" /\ task.route \in {"registry", "invoke"})
        => /\ \A c \in RegistryCallsOf(task) : c.headers = own
           /\ \A c \in TunnelCallsOf(task) :
                 /\ "Authorization" \notin DOMAIN c.headers
                 /\ IF task.route = "registry"
                    THEN c.headers = ("Accept" :> "application/json")
                    ELSE /\ DOMAIN c.headers = DOMAIN own \cap {"Content-Type"}
                         /\ \A h \in DOMAIN c.headers : c.headers[h] = own[h]

\* C18 witness: an invocation with an Authorization and a Content-Type
\* header; the lookup carried both, the call to the endpoint the
\* Content-Type alone.
C18_Witness ==
    \E t \in Tasks :
        LET task == tasks[t] IN
        /\ task.pc = "tunnel" /\ task.route = "invoke"
        /\ DOMAIN task.request.headers = {"Authorization", "Content-Type"}
        /\ task.calls[1].to = "registry"
        /\ "Authorization" \in DOMAIN task.calls[1].headers
        /\ task.calls[2].to = "tunnel"
        /\ DOMAIN task.calls[2].headers = {"Content-Type"}

(***************************************************************************)
(* Resolution among identities that differ by case                         *)
(***************************************************************************)

ResolveIds == {"a", "A"}

ResolveRecords ==
    {[clientId |-> id, tunnelUrl |-> u, updatedAt |-> 2, createdAt |-> 1] :
        id \in ResolveIds, u \in {UpUrl, OtherUrl}}

ResolveSnapshots == UNION {[1..n -> ResolveRecords] : n \in 0..MaxRecords}

\* The requests of the three tunnel routes for each of the identities.
ResolveRequests ==
    {[req EXCEPT !.pathname[2] = id] : req \in ConcRequests, id \in ResolveIds}

\* No allowlist; every LOCAL_TUNNEL_URLS of the model.
InitResolve ==
    /\ env \in {e \in Envs : e.ALLOWED_CLIENT_IDS = Undefined /\ ~e.ASSETS}
    /\ tasks = [t \in Tasks |-> Idle]
    /\ registry = <<>>
    /\ UiInit

NextResolve ==
    \/ \E t \in Tasks, req \in ResolveRequests : fetch(t, req)
    \/ \E t \in Tasks, snap \in ResolveSnapshots :
          RegistryReturns(t, RegistryAnswer(snap))
    \/ \E t \in Tasks, reply \in ConcTunnelReplies : TunnelReturns(t, reply)
    \/ \E t \in Tasks : Finish(t)

SpecResolve == InitResolve /\ [][NextResolve]_vars

\* C19: on each of the three tunnel routes the id is resolved to the first
\* record of the list whose identity is the very string of the path: when no
\* record has it (records that differ by case do not count) the answer is
\* 404 with no call to an endpoint; otherwise the endpoint called is the one
\* of that first record, or on the registry-probe route its local override,
\* whatever the records that follow.
C19_ExactFirstMatch ==
    \A t \in Tasks :
        LET task == tasks[t] IN
        (/\ task.pc # "idle"
         /\ task.route \in {"registry", "invoke", "generic"}
         /\ HasSnapshot(task))
        => LET id == IdOf(task.request)
               data == SnapshotOf(task)
               hits == {i \in 1..Len(data) : data[i].clientId = id}
           IN  IF hits = {}
               THEN AnsweredError(task, 404, "Tunnel not found")
                    /\ Len(task.calls) = 1
               ELSE LET first == CHOOSE i \in hits : \A j \in hits : i <= j
                        endpoint ==
                            IF task.route = "registry" /\ HasOverride(id)
                            THEN ParseURL(LocalOverride(env, id, "").baseUrl)
                            ELSE ParseURL(data[first].tunnelUrl)
                    IN  /\ task.route # "registry" => Len(task.calls) = 2
                        /\ \A c \in TunnelCallsOf(task) :
                              /\ c.url.scheme = endpoint.scheme
                              /\ c.url.host = endpoint.host

\* C19 witness: the list has two records of "a" with different endpoints;
\* the call for "a" goes to the endpoint of the first of them.
C19_Witness ==
    \E t \in Tasks :
        LET task == tasks[t] IN
        /\ task.pc = "tunnel" /\ task.route = "generic"
        /\ HasSnapshot(task)
        /\ IdOf(task.request) = "a"
        /\ Len(SnapshotOf(task)) = 2
        /\ SnapshotOf(task)[1].clientId = "a"
        /\ SnapshotOf(task)[2].clientId = "a"
        /\ SnapshotOf(task)[1].tunnelUrl = OtherUrl
        /\ SnapshotOf(task)[2].tunnelUrl = UpUrl
        /\ task.calls[2].url.host = "other.example"

\* C20: on the registry-probe route the call to the endpoint is a GET of
\* /api/registry on the endpoint, without the inbound query and without a
\* body, and once the endpoint has answered, the response to the caller has
\* the endpoint's status, the text of its body, Content-Type
\* application/json and the CORS headers, whatever the endpoint's own
\* content type.
C20_ProbeIsRewrapped ==
    \A t \in Tasks :
        LET task == tasks[t] IN
        (task.pc # "idle" /\ task.route = "registry")
        => /\ \A c \in TunnelCallsOf(task) :
                 LET id == IdOf(task.request)
                     base == IF HasOverride(id)
                             THEN ParseURL(LocalOverride(env, id, "").baseUrl)
                             ELSE ParseURL(ResolvedRecord(task).tunnelUrl)
                 IN  /\ c.method = "GET"
                     /\ c.body = NullBody
                     /\ c.url = [base EXCEPT !.pathname = <<"api", "registry">>]
           /\ (task.pc = "done" /\ TunnelAnswered(task))
              => /\ task.responses[1].status = task.replies[2].status
                 /\ task.responses[1].body = Text(task.replies[2].body)
                 /\ task.responses[1].headers = Spread(corsHeaders, JsonType)

\* C21: a request that no earlier route matches is handed to the
\* static-asset collaborator when one is configured, as it came, and the
\* collaborator's response is returned; with no collaborator, or when the
\* delegation throws, the info payload is returned with status 200; the
\* default route calls neither the registry authority nor a tunnel endpoint.
C21_DefaultRoute ==
    \A t \in Tasks :
        LET task == tasks[t] IN
        (task.pc # "idle" /\ task.route = "default")
        => /\ RegistryCallsOf(task) = {}
           /\ TunnelCallsOf(task) = {}
           /\ InfoResponse.status = 200
           /\ IF env.ASSETS
              THEN /\ task.calls = <<AssetsCall(task.request)>>
                   /\ task.pc \in {"assets", "done"}
                   /\ task.pc = "done"
                      => IF task.replies[1].kind = "throw"
                         THEN task.responses = <<InfoResponse>>
                         ELSE task.responses
                                = <<[status |-> task.replies[1].status,
                                     statusText |-> task.replies[1].statusText,
                                     headers |-> task.replies[1].headers,
                                     body |-> task.replies[1].body]>>
              ELSE /\ task.pc = "done"
                   /\ task.calls = <<>>
                   /\ task.responses = <<InfoResponse>>

\* C21 witness: the delegation of a request of the default route threw and
\* the info payload was returned.
C21_Witness ==
    \E t \in Tasks :
        LET task == tasks[t] IN
        /\ task.pc = "done" /\ task.route = "default"
        /\ env.ASSETS
        /\ Len(task.replies) = 1 /\ task.replies[1].kind = "throw"
        /\ task.responses = <<InfoResponse>>

(***************************************************************************)
(* The browser side: GrpcWebRpc, MethodExecutor, TunnelList                *)
(***************************************************************************)

\* The most grpc.unary calls in flight at once.
MaxPending == 2

BrowserIdle == UNCHANGED <<env, tasks, registry>>

\* The call returns a promise that stays pending, after a request was sent.
Throws_pending(r, name, message) ==
    [r EXCEPT !.called = name, !.thrown = "", !.issued = 1, !.pending = @ + 1]

\* throw new Error(message) as the first statement of the method name: the
\* call ends there, nothing was sent and no promise was made.
Throws(r, name, message) ==
    [r EXCEPT !.called = name, !.thrown = message, !.issued = 0]

\* request(service, method, data): grpc.unary is called and the promise it
\* is wrapped in is returned.
request ==
    /\ rpc.pending < MaxPending
    /\ rpc' = [rpc EXCEPT !.called = "request", !.thrown = "", !.issued = 1,
                          !.pending = @ + 1]
    /\ UNCHANGED <<executor, tunnelList>>
    /\ BrowserIdle

\* onEnd of a grpc.unary call: its promise is resolved or rejected.
onEnd ==
    /\ rpc.pending > 0
    /\ rpc' = [rpc EXCEPT !.pending = @ - 1]
    /\ UNCHANGED <<executor, tunnelList>>
    /\ BrowserIdle

clientStreamingRequest ==
    /\ rpc' = Throws(rpc, "clientStreamingRequest", "Client streaming not implemented")
    /\ UNCHANGED <<executor, tunnelList>>
    /\ BrowserIdle

serverStreamingRequest ==
    /\ rpc' = Throws(rpc, "serverStreamingRequest", "Server streaming not implemented")
    /\ UNCHANGED <<executor, tunnelList>>
    /\ BrowserIdle

bidirectionalStreamingRequest ==
    /\ rpc' = Throws(rpc, "bidirectionalStreamingRequest",
                     "Bidirectional streaming not implemented")
    /\ UNCHANGED <<executor, tunnelList>>
    /\ BrowserIdle

NextRpc ==
    \/ request
    \/ onEnd
    \/ clientStreamingRequest
    \/ serverStreamingRequest
    \/ bidirectionalStreamingRequest

\* The most calls of loadGrpcServices awaiting at once.
MaxLoads == 2

UiClientIds == {"a", "b"}

\* What fetchTunnels comes back with: the list of the worker, or an Error.
TunnelsOutcomes ==
    {[kind |-> "ok", data |-> <<>>],
     [kind |-> "ok", data |-> <<"a">>],
     [kind |-> "ok", data |-> <<"a", "b">>],
     [kind |-> "error", message |-> "Failed to fetch tunnels"]}

\* loadTunnels up to its await: setLoading(true), setError(null) and the
\* call of fetchTunnels.
loadTunnels(list) ==
    [list EXCEPT !.loading = TRUE, !.error = Null, !.loads = @ + 1]

\* useEffect(() => { loadTunnels() }, []) of TunnelList.
Mount ==
    /\ ~tunnelList.mounted
    /\ tunnelList' = loadTunnels([tunnelList EXCEPT !.mounted = TRUE])
    /\ UNCHANGED <<rpc, executor>>
    /\ BrowserIdle

\* The refresh button: rendered when the list is shown.
Refresh ==
    /\ tunnelList.mounted /\ ~tunnelList.loading /\ tunnelList.error = Null
    /\ tunnelList' = loadTunnels(tunnelList)
    /\ UNCHANGED <<rpc, executor>>
    /\ BrowserIdle

\* The retry button: rendered when the error is shown.
Retry ==
    /\ tunnelList.mounted /\ ~tunnelList.loading /\ tunnelList.error # Null
    /\ tunnelList' = loadTunnels(tunnelList)
    /\ UNCHANGED <<rpc, executor>>
    /\ BrowserIdle

\* The load shows what it fetched and never ends: loading stays true.
AfterFetchTunnels_stuck(list, outcome) ==
    [list EXCEPT !.loads = @ - 1, !.settled = outcome,
                 !.tunnels = IF outcome.kind = "ok" THEN outcome.data ELSE @]

\* loadTunnels from the return of fetchTunnels: setTunnels(response.data),
\* or in the catch setError(message); finally setLoading(false).
AfterFetchTunnels(list, outcome) ==
    IF outcome.kind = "ok"
    THEN [list EXCEPT !.tunnels = outcome.data, !.loading = FALSE,
                      !.loads = @ - 1, !.settled = outcome]
    ELSE [list EXCEPT !.error = [kind |-> "text", text |-> outcome.message],
                      !.loading = FALSE, !.loads = @ - 1, !.settled = outcome]

\* fetchTunnels settles.
TunnelsReturn(outcome) ==
    /\ tunnelList.loads > 0
    /\ tunnelList' = AfterFetchTunnels(tunnelList, outcome)
    /\ UNCHANGED <<rpc, executor>>
    /\ BrowserIdle

\* The services listGrpcServices finds for a client.
ServicesOf(clientId) == <<[name |-> clientId \o ".Service"]>>

\* What listGrpcServices(clientId) resolves to: the services of the client,
\* or [] after any failure (it catches every error).
ServicesOutcomes(clientId) == {ServicesOf(clientId), <<>>}

\* loadGrpcServices up to its await, called by the effect on [clientId].
loadGrpcServices(ex) ==
    [ex EXCEPT !.loadingServices = TRUE, !.loads = Append(@, ex.clientId)]

\* A click on a tunnel of the shown list: App's setSelectedTunnel.  The
\* first selection renders MethodExecutor; a later one changes its clientId
\* prop, the state is kept and the effect runs again.
Select(clientId) ==
    /\ tunnelList.mounted /\ ~tunnelList.loading /\ tunnelList.error = Null
    /\ \E i \in 1..Len(tunnelList.tunnels) : tunnelList.tunnels[i] = clientId
    /\ clientId # executor.clientId
    /\ Len(executor.loads) < MaxLoads
    /\ executor' = loadGrpcServices([executor EXCEPT !.clientId = clientId])
    /\ UNCHANGED <<rpc, tunnelList>>
    /\ BrowserIdle

Remove(seq, i) == SubSeq(seq, 1, i - 1) \o SubSeq(seq, i + 1, Len(seq))

\* loadGrpcServices from the return of listGrpcServices.
AfterListGrpcServices(ex, i, services) ==
    [ex EXCEPT !.grpcServices = services,
               !.service = IF Len(services) > 0 THEN services[1].name ELSE @,
               !.loadingServices = FALSE,
               !.loads = Remove(@, i)]

\* The i-th awaiting call of listGrpcServices settles.
ServicesReturn(i, services) ==
    /\ i \in 1..Len(executor.loads)
    /\ services \in ServicesOutcomes(executor.loads[i])
    /\ executor' = AfterListGrpcServices(executor, i, services)
    /\ UNCHANGED <<rpc, tunnelList>>
    /\ BrowserIdle

\* The request body textarea: a JSON text or a text that does not parse.
RequestBodies == {"{}", "{"}

setRequestBody(text) ==
    /\ executor.clientId # ""
    /\ executor.requestBody # text
    /\ executor' = [executor EXCEPT !.requestBody = text]
    /\ UNCHANGED <<rpc, tunnelList>>
    /\ BrowserIdle

\* JSON.parse throws on the text.
ParseThrows(text) == text # "{}"

\* A click on the button, which is disabled while loading: executeRequest up
\* to its await, or through catch and finally when JSON.parse throws.
executeRequest ==
    /\ executor.clientId # ""
    /\ ~executor.loading
    /\ executor' =
          IF ParseThrows(executor.requestBody)
          THEN [executor EXCEPT
                  !.response = Null,
                  !.error = [kind |-> "text", text |-> "Unexpected end of JSON input"],
                  !.loading = FALSE]
          ELSE [executor EXCEPT
                  !.response = Null, !.error = Null, !.loading = TRUE,
                  !.execs = Append(@, [clientId |-> executor.clientId,
                                       service |-> executor.service])]
    /\ UNCHANGED <<rpc, tunnelList>>
    /\ BrowserIdle

\* What executeGrpcWebRequest settles with: the JSON of the answer, or an
\* Error.
ExecOutcomes(exec) ==
    {[kind |-> "result", clientId |-> exec.clientId, service |-> exec.service],
     [kind |-> "error", message |-> "Failed to connect to tunnel"]}

\* executeRequest from the return of executeGrpcWebRequest.
AfterExecute(ex, i, outcome) ==
    IF outcome.kind = "result"
    THEN [ex EXCEPT !.response = outcome, !.loading = FALSE,
                    !.execs = Remove(@, i)]
    ELSE [ex EXCEPT !.error = [kind |-> "text", text |-> outcome.message],
                    !.loading = FALSE, !.execs = Remove(@, i)]

\* The i-th awaiting call of executeGrpcWebRequest settles.
ExecuteReturn(i, outcome) ==
    /\ i \in 1..Len(executor.execs)
    /\ outcome \in ExecOutcomes(executor.execs[i])
    /\ executor' = AfterExecute(executor, i, outcome)
    /\ UNCHANGED <<rpc, tunnelList>>
    /\ BrowserIdle

InitUi ==
    /\ env \in {e \in Envs : e.ALLOWED_CLIENT_IDS = Undefined
                             /\ e.LOCAL_TUNNEL_URLS = Undefined /\ ~e.ASSETS}
    /\ tasks = [t \in Tasks |-> Idle]
    /\ registry = <<>>
    /\ UiInit

NextUi ==
    \/ NextRpc
    \/ Mount
    \/ Refresh
    \/ Retry
    \/ \E outcome \in TunnelsOutcomes : TunnelsReturn(outcome)
    \/ \E clientId \in UiClientIds : Select(clientId)
    \/ \E i \in 1..MaxLoads, services \in UNION {ServicesOutcomes(c) : c \in UiClientIds} :
          ServicesReturn(i, services)
    \/ \E text \in RequestBodies : setRequestBody(text)
    \/ executeRequest
    \/ \E outcome \in UNION {ExecOutcomes([clientId |-> c, service |-> s]) :
                                c \in UiClientIds,
                                s \in {""} \cup {ServicesOf(d)[1].name : d \in UiClientIds}} :
          ExecuteReturn(1, outcome)

SpecUi == InitUi /\ [][NextUi]_vars

\* The browser side with every call of fetchTunnels settling.
SpecUiLive ==
    SpecUi /\ WF_vars(\E outcome \in TunnelsOutcomes : TunnelsReturn(outcome))

NotImplemented ==
    {"Client streaming not implemented", "Server streaming not implemented",
     "Bidirectional streaming not implemented"}

StreamingMethods ==
    {"clientStreamingRequest", "serverStreamingRequest",
     "bidirectionalStreamingRequest"}

\* C22: a call of a streaming method of the RPC client ends at once by
\* throwing its not-implemented error: the call sent no network request and
\* made no promise, so the calls in flight are those of the unary requests
\* made before.
C22_StreamingFailsFast ==
    /\ [](rpc.called \in StreamingMethods
          => rpc.thrown \in NotImplemented /\ rpc.issued = 0)
    /\ [][(\/ clientStreamingRequest
           \/ serverStreamingRequest
           \/ bidirectionalStreamingRequest)
          => /\ rpc'.pending = rpc.pending
             /\ rpc'.called \in StreamingMethods
             /\ rpc'.thrown \in NotImplemented]_vars

\* C22 witness: a streaming method was called while a unary request was in
\* flight; it threw and the unary request is the only call in flight.
C22_Witness ==
    /\ rpc.called = "serverStreamingRequest"
    /\ rpc.thrown = "Server streaming not implemented"
    /\ rpc.pending = 1

(***************************************************************************)
(* Two requests for the list                                               *)
(***************************************************************************)

\* GET /tunnels with each query and each header set of the model, and a
\* request of the generic route that may be handled in between.
TunnelsRequests ==
    {req \in Requests :
        \/ req.method = "GET" /\ req.pathname = <<"tunnels">>
        \/ /\ req.method = "GET" /\ req.pathname = <<"tunnel", "a", "x">>
           /\ req.search = "" /\ req.headers = Authorization}

InitTunnels ==
    /\ env \in {e \in Envs : e.ALLOWED_CLIENT_IDS = Undefined
                             /\ e.LOCAL_TUNNEL_URLS = Undefined /\ ~e.ASSETS}
    /\ tasks = [t \in ConcTasks |-> Idle]
    /\ registry = <<>>
    /\ UiInit

NextTunnels ==
    \/ \E t \in ConcTasks, req \in TunnelsRequests : fetch(t, req)
    \/ \E t \in ConcTasks, reply \in RegistryReplies : RegistryReturns(t, reply)
    \/ \E t \in ConcTasks, reply \in ConcTunnelReplies : TunnelReturns(t, reply)
    \/ \E t \in ConcTasks : Finish(t)

SpecTunnels == InitTunnels /\ [][NextTunnels]_vars

\* The task has answered a GET /tunnels from a list of the registry.
ListedFrom(task) ==
    task.pc = "done" /\ task.route = "list" /\ HasSnapshot(task)

IsRegistryFetch(req) ==
    \E id \in ClientIds : req = fetchGrpcRegistry(id)

\* The registry a tunnel endpoint serves for client "a".
RegistryPayload == <<[name |-> "a", services |-> <<"S">>]>>

\* C24: the request fetchGrpcRegistry issues for an allowed client is
\* routed by the worker towards the client's tunnel endpoint: the worker
\* looks the client up, and when the client is in the list and its endpoint
\* answers 200 the worker's answer is ok, so that listGrpcServices returns
\* the services of the client's process.
C24_RegistryThroughWorker ==
    \A t \in Tasks :
        LET task == tasks[t] IN
        (/\ task.pc # "idle"
         /\ IsRegistryFetch(task.request)
         /\ AccessAllowed(IdOf(task.request)))
        => /\ Len(task.calls) >= 1
           /\ task.calls[1].to = "registry"
           /\ (/\ task.pc = "done" /\ TunnelAnswered(task)
               /\ task.replies[2].status = 200
               /\ IdOf(task.request) = "a")
              => listGrpcServices("a", task.responses[1], RegistryPayload) = <<"S">>

\* C25: a request that reaches the generic route with a path under
\* /api/grpc/ is on a path that a specific route handles for some method,
\* the request having only the wrong method; so the 405 of the guard is
\* given only for an unsupported method on a path of a specific route.
C25_GuardOnlyForWrongMethod ==
    \A t \in Tasks :
        LET task == tasks[t] IN
        (/\ task.pc # "idle"
         /\ task.route = "generic"
         /\ IsGrpcApiPath(remainingPath(task.request.pathname)))
        => \E m \in Methods :
              /\ m # task.request.method
              /\ Route([task.request EXCEPT !.method = m]) \in {"registry", "invoke"}

\* C26: loadingServices is false exactly when no load of the service list
\* is in flight, and once no load is in flight the service list shown, with
\* the service preselected from it, is the one fetched for the clientId the
\* component has now, in whatever order the loads completed.
C26_ServicesOfCurrentClient ==
    /\ executor.loadingServices <=> executor.loads # <<>>
    /\ (executor.clientId # "" /\ executor.loads = <<>>)
       => /\ executor.grpcServices \in ServicesOutcomes(executor.clientId)
          /\ executor.grpcServices # <<>>
             => executor.service = executor.grpcServices[1].name

\* C27: at most one execution is in flight, loading is true exactly while
\* one is in flight (so it is false again after a result, after a failure
\* and after a body that does not parse), error and response are never both
\* set, and a result that is shown was produced for the clientId the
\* component shows.
C27_ExecuteRequest ==
    /\ Len(executor.execs) <= 1
    /\ executor.loading <=> Len(executor.execs) = 1
    /\ ~(executor.error # Null /\ executor.response # Null)
    /\ executor.response # Null
       => executor.response.clientId = executor.clientId

\* What TunnelList shows when no load is in flight: the list the latest
\* fetch brought, with no error, or the error of the latest fetch.
ShowsLatest ==
    IF tunnelList.settled.kind = "ok"
    THEN tunnelList.tunnels = tunnelList.settled.data /\ tunnelList.error = Null
    ELSE /\ tunnelList.settled.kind = "error"
         /\ tunnelList.error = [kind |-> "text", text |-> tunnelList.settled.message]

====
